---- MODULE Spec2Model ----
(***************************************************************************)
(* SimPEG/data.py: the Data and SyntheticData containers.                  *)
(*                                                                         *)
(* A Data instance holds dobs, standard_deviation and noise_floor, checks  *)
(* their lengths against survey.nD when they are assigned, derives the     *)
(* uncertainty vector, and caches a (source, receiver) -> indices map.     *)
(*                                                                         *)
(* Arrays are sequences of numbers and are modelled by value.  Python      *)
(* indices are 0-based: the entry at index i of an array a is a[i + 1].    *)
(* A call either returns or raises; `result` holds what the caller gets,   *)
(* and the caller takes it (Resume) before it makes the next call.         *)
(***************************************************************************)
EXTENDS Integers, Sequences, FiniteSets, TLC

VARIABLES
    receiver_list,  \* heap: source -> its ordered receiver list
    rxnD,           \* heap: receiver -> its datum count (rx.nD)
    survey,         \* the survey object handed to the constructor
    cls,            \* class of the instance: "none" before construction
    self,           \* the instance's attributes: name -> value
    result          \* outcome of the call in progress, or Idle

vars == <<receiver_list, rxnD, survey, cls, self, result>>

----------------------------------------------------------------------------
(* Bounds of the model *)

MaxSrc == 2      \* source objects on the heap
MaxRx == 2       \* receiver objects on the heap
MaxRxND == 2     \* largest datum count of a receiver
MaxND == 4       \* largest survey.nD a Data instance is built on

SrcIds == 1..MaxSrc
RxIds == 1..MaxRx
MaxLen == MaxND + 1   \* longest array handed to a setter

\* np.nan
nan == -99

----------------------------------------------------------------------------
(* Helpers *)

Range(s) == {s[i] : i \in DOMAIN s}

IsInjective(s) == \A i, j \in DOMAIN s : s[i] = s[j] => i = j

InjSeqs(S) == {s \in UNION {[1..k -> S] : k \in 0..Cardinality(S)} : IsInjective(s)}

Min(a, b) == IF a <= b THEN a ELSE b

----------------------------------------------------------------------------
(* The survey (external collaborator): an ordered list of sources, each    *)
(* with an ordered list of receivers, each receiver with a datum count.    *)
(* The objects of a list are distinct; a receiver may serve several        *)
(* sources.                                                                *)

RECURSIVE SumND(_, _)
SumND(rxs, j) == IF j > Len(rxs) THEN 0 ELSE rxnD[rxs[j]] + SumND(rxs, j + 1)

\* src.nD
SrcND(src) == SumND(receiver_list[src], 1)

RECURSIVE SumSrc(_, _)
SumSrc(srcs, i) == IF i > Len(srcs) THEN 0 ELSE SrcND(srcs[i]) + SumSrc(srcs, i + 1)

\* survey.nD
SurveyND(sv) == SumSrc(sv.source_list, 1)

Surveys == {[source_list |-> sl] : sl \in InjSeqs(SrcIds)}

----------------------------------------------------------------------------
(* Values handed to the instance.  A value is None, an integer, a float or *)
(* an array: t is its type and v its entries (one entry for a number).     *)
(* float(value) keeps the number and changes its type.                     *)

None == [t |-> "None", v |-> <<>>]

PyInt(x) == [t |-> "int", v |-> <<x>>]

PyFloat(x) == [t |-> "float", v |-> <<x>>]

\* the number a scalar value holds
Num(value) == value.v[1]

Array(a) == [t |-> "array", v |-> a]

Ramp(k) == [i \in 1..k |-> i]

Fall(k) == [i \in 1..k |-> 0 - i]

\* arrays handed to a setter: one of each length
ArrayInputs == {Array(Ramp(k)) : k \in 0..MaxLen}

ScalarInputs == {PyInt(2), PyFloat(-1)}

Inputs == ArrayInputs \cup ScalarInputs

\* values written in place at an index range
WriteInputs == {Array(Fall(k)) : k \in 0..(MaxRxND + 1)} \cup {PyFloat(-1)}

----------------------------------------------------------------------------
(* numpy *)

\* v * np.ones(n)
Fill(v, n) == [i \in 1..n |-> v]

\* np.arange(lo, hi)
arange(lo, hi) == [i \in 1..(hi - lo) |-> lo + i - 1]

Mul(x, y) == IF x = nan \/ y = nan THEN nan ELSE x * y

Add(x, y) == IF x = nan \/ y = nan THEN nan ELSE x + y

Absolute(x) == IF x = nan THEN nan ELSE IF x < 0 THEN 0 - x ELSE x

\* np.absolute left out
np_absolute_identity(a) == a

\* np.absolute(a)
np_absolute(a) == [i \in 1..Len(a) |-> Absolute(a[i])]

\* shapes (Len(a),) and (Len(b),) broadcast together
Broadcasts(a, b) == Len(a) = Len(b) \/ Len(a) = 1 \/ Len(b) = 1

BroadcastLen(a, b) == IF Len(a) = 1 THEN Len(b) ELSE Len(a)

At(a, i) == IF Len(a) = 1 THEN a[1] ELSE a[i]

\* a * b and a + b, element-wise (defined when the shapes broadcast)
np_multiply(a, b) == [i \in 1..BroadcastLen(a, b) |-> Mul(At(a, i), At(b, i))]

np_add(a, b) == [i \in 1..BroadcastLen(a, b) |-> Add(At(a, i), At(b, i))]

\* a[index] with an integer index array
InBounds(a, index) == \A i \in 1..Len(index) : index[i] < Len(a)

Take(a, index) == [i \in 1..Len(index) |-> a[index[i] + 1]]

\* a[index] = value: the value is a scalar, or an array of the index's
\* length, or an array of one entry
Assignable(index, value) ==
    \/ value.t \in {"int", "float"}
    \/ value.t = "array" /\ (Len(value.v) = Len(index) \/ Len(value.v) = 1)

ValueAt(value, i) ==
    IF value.t = "array" THEN At(value.v, i) ELSE Num(value)

Put(a, index, value) ==
    [k \in 1..Len(a) |->
        IF \E i \in 1..Len(index) : index[i] + 1 = k
        THEN ValueAt(value, CHOOSE i \in 1..Len(index) : index[i] + 1 = k)
        ELSE a[k]]

----------------------------------------------------------------------------
(* Outcomes: a call returns (exc = "none") or raises exc with message msg. *)

NoExc == [exc |-> "none", msg |-> <<>>]

Has(obj, name) == name \in DOMAIN obj

\* the attribute, or None while it has never been set
IsNone(obj, name) == ~Has(obj, name)

Store(obj, name, value) == (name :> value) @@ obj

----------------------------------------------------------------------------
(* The validated properties *)

\* properties.Array.validate: a list, tuple or ndarray is taken as the array
Array_validate(value) ==
    IF value.t = "array"
    THEN [exc |-> "none", msg |-> <<>>, value |-> value]
    ELSE [exc |-> "ValidationError", msg |-> <<>>, value |-> value]

\* UncertaintyArray.validate without its integer branch
UncertaintyArray_validate_noint(value) ==
    [exc |-> "none", msg |-> <<>>, value |-> value]

\* UncertaintyArray.validate
UncertaintyArray_validate(value) ==
    IF value.t = "int"
    THEN [exc |-> "none", msg |-> <<>>, value |-> PyFloat(Num(value))]
    ELSE [exc |-> "none", msg |-> <<>>, value |-> value]

\* Data.nD
nD(obj) == Len(obj.dobs)

\* len(change['value'])
ChangeLen(change) == Len(change.value.v)

\* Data._dobs_validator without its length comparison
dobs_validator_unchecked(obj, change) ==
    [exc |-> "none", msg |-> <<>>, value |-> change.value]

\* Data._dobs_validator
dobs_validator(obj, change) ==
    IF change.value.t # "array"
    THEN [exc |-> "TypeError", msg |-> <<>>, value |-> change.value]
    ELSE IF SurveyND(obj.survey) # ChangeLen(change)
    THEN [exc |-> "ValueError",
          msg |-> <<change.name, ChangeLen(change), SurveyND(obj.survey)>>,
          value |-> change.value]
    ELSE [exc |-> "none", msg |-> <<>>, value |-> change.value]

\* value * np.ones(self.nD)
Broadcast(obj, value) == Array(Fill(Num(value), nD(obj)))

\* Data._uncertainty_validator without its call of _dobs_validator
uncertainty_validator_unchecked(obj, change) ==
    IF change.value.t = "float"
    THEN [exc |-> "none", msg |-> <<>>, value |-> Broadcast(obj, change.value)]
    ELSE [exc |-> "none", msg |-> <<>>, value |-> change.value]

\* Data._uncertainty_validator
uncertainty_validator(obj, change) ==
    IF change.value.t = "float"
    THEN dobs_validator(obj, [change EXCEPT !.value = Broadcast(obj, change.value)])
    ELSE dobs_validator(obj, change)

\* SyntheticData._dclean_validator
dclean_validator(obj, change) == dobs_validator(obj, change)

PropertyValidate(name, value) ==
    IF name \in {"standard_deviation", "noise_floor"}
    THEN UncertaintyArray_validate(value)
    ELSE Array_validate(value)

Validators(obj, change) ==
    IF change.name \in {"standard_deviation", "noise_floor"}
    THEN uncertainty_validator(obj, change)
    ELSE IF change.name = "dclean"
    THEN dclean_validator(obj, change)
    ELSE dobs_validator(obj, change)

\* obj.<name> = value storing before the validators have run
SetProperty_store_first(obj, name, value) ==
    LET v == PropertyValidate(name, value) IN
    IF v.exc # "none"
    THEN [exc |-> v.exc, msg |-> v.msg, self |-> obj]
    ELSE LET c == Validators(obj, [name |-> name, value |-> v.value]) IN
         [exc |-> c.exc, msg |-> c.msg, self |-> Store(obj, name, c.value.v)]

\* obj.<name> = value: validate, run the validators, then store; a raise
\* leaves the attribute as it was
SetProperty(obj, name, value) ==
    LET v == PropertyValidate(name, value) IN
    IF v.exc # "none"
    THEN [exc |-> v.exc, msg |-> v.msg, self |-> obj]
    ELSE LET c == Validators(obj, [name |-> name, value |-> v.value]) IN
         IF c.exc # "none"
         THEN [exc |-> c.exc, msg |-> c.msg, self |-> obj]
         ELSE [exc |-> "none", msg |-> <<>>, self |-> Store(obj, name, c.value.v)]

\* obj.survey = sv: an Instance property without validators
SetSurvey(obj, sv) == Store(obj, "survey", sv)

----------------------------------------------------------------------------
(* Construction *)

\* a default of zeros whatever the field
OrDefault_zeros(arg, fill, n) == IF arg.t = "None" THEN Array(Fill(0, n)) ELSE arg

OrDefault(arg, fill, n) == IF arg.t = "None" THEN Array(Fill(fill, n)) ELSE arg

\* Data.__init__
Data_init(sv, a_dobs, a_sd, a_nf) ==
    LET o == SetSurvey(<<>>, sv)
        r1 == SetProperty(o, "dobs", OrDefault(a_dobs, nan, SurveyND(sv)))
    IN  IF r1.exc # "none" THEN r1
        ELSE LET r2 == SetProperty(r1.self, "standard_deviation",
                                   OrDefault(a_sd, 0, SurveyND(sv)))
             IN  IF r2.exc # "none" THEN r2
                 ELSE SetProperty(r2.self, "noise_floor",
                                  OrDefault(a_nf, 0, SurveyND(sv)))

\* SyntheticData.__init__
SyntheticData_init(sv, a_dobs, a_dclean, a_sd, a_nf) ==
    LET r == Data_init(sv, a_dobs, a_sd, a_nf)
    IN  IF r.exc # "none" THEN r
        ELSE SetProperty(r.self, "dclean",
                         OrDefault(a_dclean, nan, SurveyND(r.self.survey)))

----------------------------------------------------------------------------
(* The index map *)

\* the receiver loop without `indBot += rx.nD`
RECURSIVE RxLoop_stuck_bottom(_, _, _, _, _, _)
RxLoop_stuck_bottom(d, src, rxs, j, indBot, indTop) ==
    IF j > Len(rxs)
    THEN [d |-> d, indBot |-> indBot, indTop |-> indTop]
    ELSE LET rx == rxs[j]
             top == indTop + rxnD[rx]
         IN  RxLoop_stuck_bottom([d EXCEPT ![src] = (rx :> arange(indBot, top)) @@ @],
                                 src, rxs, j + 1, indBot, top)

\* the receiver loop of index_dict: the dictionary and the two counters
\* after the receivers rxs[j..] of src
RECURSIVE RxLoop(_, _, _, _, _, _)
RxLoop(d, src, rxs, j, indBot, indTop) ==
    IF j > Len(rxs)
    THEN [d |-> d, indBot |-> indBot, indTop |-> indTop]
    ELSE LET rx == rxs[j]
             top == indTop + rxnD[rx]
         IN  RxLoop([d EXCEPT ![src] = (rx :> arange(indBot, top)) @@ @],
                    src, rxs, j + 1, indBot + rxnD[rx], top)

\* the source loop of index_dict
RECURSIVE SrcLoop(_, _, _, _, _)
SrcLoop(d, srcs, i, indBot, indTop) ==
    IF i > Len(srcs)
    THEN d
    ELSE LET r == RxLoop(d, srcs[i], receiver_list[srcs[i]], 1, indBot, indTop)
         IN  SrcLoop(r.d, srcs, i + 1, r.indBot, r.indTop)

\* the dictionary index_dict builds for a survey
BuildIndexDict(sv) ==
    SrcLoop([src \in Range(sv.source_list) |-> <<>>], sv.source_list, 1, 0, 0)

\* Data.index_dict
index_dict(obj) ==
    IF Has(obj, "_index_dict")
    THEN [exc |-> "none", msg |-> <<>>, self |-> obj, ret |-> obj._index_dict]
    ELSE IF IsNone(obj, "survey")
    THEN [exc |-> "Exception", msg |-> <<>>, self |-> obj, ret |-> <<>>]
    ELSE LET d == BuildIndexDict(obj.survey)
         IN  [exc |-> "none", msg |-> <<>>,
              self |-> Store(obj, "_index_dict", d), ret |-> d]

\* d[key[0]][key[1]] finds an entry
HasKey(d, key) == key[1] \in DOMAIN d /\ key[2] \in DOMAIN d[key[1]]

----------------------------------------------------------------------------
(* Reads and writes *)

\* Data.uncertainty (getter)
uncertainty(obj) ==
    IF IsNone(obj, "standard_deviation") /\ IsNone(obj, "noise_floor")
    THEN [exc |-> "Exception", msg |-> <<>>, ret |-> <<>>]
    ELSE LET u0 == Fill(0, nD(obj))
             ok1 == IsNone(obj, "standard_deviation")
                    \/ (/\ Broadcasts(obj.standard_deviation, obj.dobs)
                        /\ Broadcasts(u0, np_multiply(obj.standard_deviation,
                                                      np_absolute(obj.dobs))))
             u1 == IF IsNone(obj, "standard_deviation") THEN u0
                   ELSE np_add(u0, np_multiply(obj.standard_deviation,
                                               np_absolute(obj.dobs)))
         IN  IF ~ok1 THEN [exc |-> "ValueError", msg |-> <<>>, ret |-> <<>>]
             ELSE IF IsNone(obj, "noise_floor")
             THEN [exc |-> "none", msg |-> <<>>, ret |-> u1]
             ELSE IF ~Broadcasts(u1, obj.noise_floor)
             THEN [exc |-> "ValueError", msg |-> <<>>, ret |-> <<>>]
             ELSE [exc |-> "none", msg |-> <<>>, ret |-> np_add(u1, obj.noise_floor)]

\* Data.uncertainty (setter): its first statement reads self.self
uncertainty_set(obj, value) ==
    [exc |-> "AttributeError", msg |-> <<"self">>, self |-> obj]

\* a.dobs[index] = value: the outcomes numpy can give
PutOutcomes(obj, index, value) ==
    LET bad == {e \in {"IndexError", "ValueError"} :
                   \/ e = "IndexError" /\ ~InBounds(obj.dobs, index)
                   \/ e = "ValueError" /\ ~Assignable(index, value)}
    IN  IF bad # {}
        THEN {[exc |-> e, msg |-> <<>>, self |-> obj] : e \in bad}
        ELSE {[exc |-> "none", msg |-> <<>>,
               self |-> [obj EXCEPT !.dobs = Put(@, index, value)]]}

\* index = data.index_dict[src][rx]; data.dobs[index] = value
index_write(obj, key, value) ==
    LET r == index_dict(obj)
    IN  IF r.exc # "none" THEN {[exc |-> r.exc, msg |-> r.msg, self |-> r.self]}
        ELSE IF ~HasKey(r.ret, key)
        THEN {[exc |-> "KeyError", msg |-> <<>>, self |-> r.self]}
        ELSE PutOutcomes(r.self, r.ret[key[1]][key[2]], value)

\* Data.__setitem__ writing at the head of dobs instead of at the index
setitem_from_zero(obj, key, value) ==
    LET r == index_dict(obj)
    IN  IF r.exc # "none" THEN {[exc |-> r.exc, msg |-> r.msg, self |-> r.self]}
        ELSE IF ~HasKey(r.ret, key)
        THEN {[exc |-> "KeyError", msg |-> <<>>, self |-> r.self]}
        ELSE PutOutcomes(r.self, arange(0, Len(r.ret[key[1]][key[2]])), value)

\* Data.__setitem__ (after its warning)
setitem(obj, key, value) ==
    LET r == index_dict(obj)
    IN  IF r.exc # "none" THEN {[exc |-> r.exc, msg |-> r.msg, self |-> r.self]}
        ELSE IF ~HasKey(r.ret, key)
        THEN {[exc |-> "KeyError", msg |-> <<>>, self |-> r.self]}
        ELSE PutOutcomes(r.self, r.ret[key[1]][key[2]], value)

\* Data.__getitem__ (after its warning)
getitem(obj, key) ==
    LET r == index_dict(obj)
    IN  IF r.exc # "none"
        THEN [exc |-> r.exc, msg |-> r.msg, self |-> r.self, ret |-> <<>>]
        ELSE IF ~HasKey(r.ret, key)
        THEN [exc |-> "KeyError", msg |-> <<>>, self |-> r.self, ret |-> <<>>]
        ELSE IF ~InBounds(r.self.dobs, r.ret[key[1]][key[2]])
        THEN [exc |-> "IndexError", msg |-> <<>>, self |-> r.self, ret |-> <<>>]
        ELSE [exc |-> "none", msg |-> <<>>, self |-> r.self,
              ret |-> Take(r.self.dobs, r.ret[key[1]][key[2]])]

----------------------------------------------------------------------------
(* State *)

Idle == [op |-> "idle"]

Returned(op, args, o, ret, warned) ==
    [op |-> op, args |-> args, exc |-> o.exc, msg |-> o.msg, ret |-> ret,
     warned |-> warned]

Ready == cls # "none" /\ result.op = "idle"

Keys == SrcIds \X RxIds

\* the arguments a constructor is called with, on a survey of n data
CtorInputs(n) ==
    {None, Array(Ramp(n)), Array(Ramp(n + 1)), PyFloat(-1)}

\* the sources and receivers a Data instance is exercised on: source s has
\* the receivers 1..s, receiver r records r data
InitData ==
    /\ receiver_list = [s \in SrcIds |-> Ramp(Min(s, MaxRx))]
    /\ rxnD = [r \in RxIds |-> Min(r, MaxRxND)]
    /\ survey \in {sv \in Surveys : SurveyND(sv) <= MaxND}
    /\ cls = "none"
    /\ self = <<>>
    /\ result = Idle

\* every survey: the sources 1..k in order, each with any list of distinct
\* receivers, each receiver with any datum count
InitIndex ==
    /\ survey \in {[source_list |-> Ramp(k)] : k \in 0..MaxSrc}
    /\ receiver_list \in {rl \in [SrcIds -> InjSeqs(RxIds)] :
                             \A s \in SrcIds : s > Len(survey.source_list) => rl[s] = <<>>}
    /\ rxnD \in [RxIds -> 0..MaxRxND]
    /\ cls = "none"
    /\ self = <<>>
    /\ result = Idle

----------------------------------------------------------------------------
(* Operations *)

\* Data(survey, dobs, standard_deviation, noise_floor)
Construct(a_dobs, a_sd, a_nf) ==
    /\ cls = "none" /\ result.op = "idle"
    /\ LET r == Data_init(survey, a_dobs, a_sd, a_nf) IN
       /\ cls' = IF r.exc = "none" THEN "Data" ELSE "none"
       /\ self' = IF r.exc = "none" THEN r.self ELSE <<>>
       /\ result' = Returned("Data", <<a_dobs, a_sd, a_nf>>, r, <<>>, FALSE)
    /\ UNCHANGED <<receiver_list, rxnD, survey>>

ConstructData ==
    \E a_dobs, a_sd, a_nf \in CtorInputs(SurveyND(survey)) :
        Construct(a_dobs, a_sd, a_nf)

\* Data(survey)
ConstructDefault == Construct(None, None, None)

\* SyntheticData(survey, dobs, dclean, standard_deviation, noise_floor)
ConstructSynthetic ==
    \E a_dobs, a_dclean, a_sd, a_nf \in CtorInputs(SurveyND(survey)) :
        /\ cls = "none" /\ result.op = "idle"
        /\ LET r == SyntheticData_init(survey, a_dobs, a_dclean, a_sd, a_nf) IN
           /\ cls' = IF r.exc = "none" THEN "SyntheticData" ELSE "none"
           /\ self' = IF r.exc = "none" THEN r.self ELSE <<>>
           /\ result' = Returned("SyntheticData", <<a_dobs, a_dclean, a_sd, a_nf>>,
                                 r, <<>>, FALSE)
        /\ UNCHANGED <<receiver_list, rxnD, survey>>

\* data.<name> = value
Assign(op, name, value, warned) ==
    /\ Ready
    /\ LET r == SetProperty(self, name, value) IN
       /\ self' = r.self
       /\ result' = Returned(op, <<value>>, r, <<>>, warned)
    /\ UNCHANGED <<receiver_list, rxnD, survey, cls>>

SetDobs == \E v \in Inputs : Assign("dobs=", "dobs", v, FALSE)

SetStandardDeviation ==
    \E v \in Inputs : Assign("standard_deviation=", "standard_deviation", v, FALSE)

SetNoiseFloor == \E v \in Inputs : Assign("noise_floor=", "noise_floor", v, FALSE)

SetDclean ==
    /\ cls = "SyntheticData"
    /\ \E v \in Inputs : Assign("dclean=", "dclean", v, FALSE)

\* data.std = value (deprecated)
SetStd == \E v \in Inputs : Assign("std=", "standard_deviation", v, TRUE)

\* data.eps = value (deprecated)
SetEps == \E v \in Inputs : Assign("eps=", "noise_floor", v, TRUE)

\* data.uncertainty = value
SetUncertainty ==
    /\ Ready
    /\ \E v \in Inputs :
        LET r == uncertainty_set(self, v) IN
        /\ self' = r.self
        /\ result' = Returned("uncertainty=", <<v>>, r, <<>>, FALSE)
    /\ UNCHANGED <<receiver_list, rxnD, survey, cls>>

\* data.uncertainty
GetUncertainty ==
    /\ Ready
    /\ LET r == uncertainty(self) IN
       result' = Returned("uncertainty", <<>>, r, r.ret, FALSE)
    /\ UNCHANGED <<receiver_list, rxnD, survey, cls, self>>

\* data.index_dict
GetIndexDict ==
    /\ Ready
    /\ LET r == index_dict(self) IN
       /\ self' = r.self
       /\ result' = Returned("index_dict", <<>>, r, r.ret, FALSE)
    /\ UNCHANGED <<receiver_list, rxnD, survey, cls>>

\* data.dobs[data.index_dict[src][rx]] = value
IndexWrite ==
    /\ Ready
    /\ \E key \in Keys, v \in WriteInputs :
        \E r \in index_write(self, key, v) :
            /\ self' = r.self
            /\ result' = Returned("dobs[index]=", <<key, v>>, r, <<>>, FALSE)
    /\ UNCHANGED <<receiver_list, rxnD, survey, cls>>

\* data[(src, rx)] = value
SetItem ==
    /\ Ready
    /\ \E key \in Keys, v \in WriteInputs :
        \E r \in setitem(self, key, v) :
            /\ self' = r.self
            /\ result' = Returned("__setitem__", <<key, v>>, r, <<>>, TRUE)
    /\ UNCHANGED <<receiver_list, rxnD, survey, cls>>

\* data[(src, rx)]
GetItem ==
    /\ Ready
    /\ \E key \in Keys :
        LET r == getitem(self, key) IN
        /\ self' = r.self
        /\ result' = Returned("__getitem__", <<key>>, r, r.ret, TRUE)
    /\ UNCHANGED <<receiver_list, rxnD, survey, cls>>

\* data.survey = sv
AssignSurvey ==
    /\ Ready
    /\ \E sv \in {x \in Surveys : SurveyND(x) <= MaxND} :
        /\ self' = SetSurvey(self, sv)
        /\ result' = Returned("survey=", <<sv>>, NoExc, <<>>, FALSE)
    /\ UNCHANGED <<receiver_list, rxnD, survey, cls>>

\* the caller has the outcome of its call and goes on
Resume ==
    /\ result.op # "idle"
    /\ result' = Idle
    /\ UNCHANGED <<receiver_list, rxnD, survey, cls, self>>

----------------------------------------------------------------------------
(* Specifications *)

\* a Data or SyntheticData on a fixed survey
Next ==
    \/ ConstructData
    \/ ConstructSynthetic
    \/ SetDobs
    \/ SetStandardDeviation
    \/ SetNoiseFloor
    \/ SetDclean
    \/ SetStd
    \/ SetEps
    \/ SetUncertainty
    \/ GetUncertainty
    \/ GetIndexDict
    \/ IndexWrite
    \/ SetItem
    \/ GetItem
    \/ Resume

Spec == InitData /\ [][Next]_vars

\* a Data whose survey is reassigned
NextSurvey ==
    \/ ConstructDefault
    \/ SetDobs
    \/ SetStandardDeviation
    \/ GetIndexDict
    \/ IndexWrite
    \/ SetItem
    \/ GetItem
    \/ AssignSurvey
    \/ Resume

SpecSurvey == InitData /\ [][NextSurvey]_vars

\* the index map of a Data(survey), over every survey
NextIndex ==
    \/ ConstructDefault
    \/ GetIndexDict
    \/ Resume

SpecIndex == InitIndex /\ [][NextIndex]_vars

----------------------------------------------------------------------------
(* Properties *)

Constructed == cls # "none"

\* the argument of the call in progress
Arg(i) == result.args[i]

\* the field an assignment writes
FieldOf(op) ==
    CASE op = "dobs=" -> "dobs"
      [] op = "dclean=" -> "dclean"
      [] op \in {"standard_deviation=", "std="} -> "standard_deviation"
      [] op \in {"noise_floor=", "eps="} -> "noise_floor"

FieldAssignments ==
    {"dobs=", "dclean=", "standard_deviation=", "std=", "noise_floor=", "eps="}

\* C1: after a successful construction, and whatever assignments (accepted
\* or rejected), deprecated std/eps assignments and in-place writes to dobs
\* follow, dobs, standard_deviation and noise_floor all have survey.nD
\* entries.
C1_EqualLengths ==
    Constructed =>
        /\ Len(self.dobs) = SurveyND(self.survey)
        /\ Len(self.standard_deviation) = SurveyND(self.survey)
        /\ Len(self.noise_floor) = SurveyND(self.survey)

\* C1 witness: an in-place write has gone through on an instance whose
\* standard deviation was broadcast from a scalar
C1_Witness ==
    /\ Constructed
    /\ result.op = "dobs[index]="
    /\ result.exc = "none"
    /\ SurveyND(self.survey) >= 3
    /\ self.standard_deviation = Fill(2, SurveyND(self.survey))

\* C2: assigning an array whose length is not survey.nD to dobs,
\* standard_deviation, noise_floor or dclean raises the error that reports
\* the field name, the length received and survey.nD, and no attribute of
\* the instance changes.
C2_RejectsWrongLength ==
    [][(/\ result'.op \in FieldAssignments
        /\ result'.args[1].t = "array"
        /\ Len(result'.args[1].v) # SurveyND(self.survey))
       => (/\ result'.exc = "ValueError"
           /\ result'.msg = <<FieldOf(result'.op), Len(result'.args[1].v),
                              SurveyND(self.survey)>>
           /\ self' = self)]_vars

\* C2 witness: dclean was handed an array of the wrong length on an
\* instance holding data
C2_Witness ==
    /\ result.op = "dclean="
    /\ Arg(1).t = "array"
    /\ Len(Arg(1).v) # SurveyND(self.survey)
    /\ Len(self.dclean) >= 3
    /\ \E i \in 1..Len(self.dclean) : self.dclean[i] # nan

\* C3: data.uncertainty = u, with u of survey.nD entries, returns normally
\* with standard_deviation all zero and noise_floor equal to u.
C3_UncertaintySetter ==
    (/\ result.op = "uncertainty="
     /\ Arg(1).t = "array"
     /\ Len(Arg(1).v) = SurveyND(self.survey))
    => (/\ result.exc = "none"
        /\ self.standard_deviation = Fill(0, SurveyND(self.survey))
        /\ self.noise_floor = Arg(1).v)

\* C10: Data(survey) has dobs all nan and standard_deviation and
\* noise_floor all zero, each of survey.nD entries; SyntheticData(survey)
\* has dclean all nan of survey.nD entries as well.
C10_Defaults ==
    (/\ result.op \in {"Data", "SyntheticData"}
     /\ \A i \in 1..Len(result.args) : Arg(i).t = "None")
    => (/\ result.exc = "none"
        /\ cls = result.op
        /\ self.dobs = Fill(nan, SurveyND(survey))
        /\ self.standard_deviation = Fill(0, SurveyND(survey))
        /\ self.noise_floor = Fill(0, SurveyND(survey))
        /\ result.op = "SyntheticData" => self.dclean = Fill(nan, SurveyND(survey)))

\* C10 witness: SyntheticData(survey) on a survey of two sources
C10_Witness ==
    /\ result.op = "SyntheticData"
    /\ \A i \in 1..Len(result.args) : Arg(i).t = "None"
    /\ Len(survey.source_list) = 2
    /\ SurveyND(survey) >= 3

\* the (source, receiver) pairs of a survey in traversal order: sources in
\* order, the receivers of each source in order
RECURSIVE Traversal(_, _)
Traversal(srcs, i) ==
    IF i > Len(srcs)
    THEN <<>>
    ELSE [j \in 1..Len(receiver_list[srcs[i]]) |->
             <<srcs[i], receiver_list[srcs[i]][j]>>] \o Traversal(srcs, i + 1)

Pairs(sv) == Traversal(sv.source_list, 1)

\* the datum counts of the receivers visited before position p
RECURSIVE CountBefore(_, _)
CountBefore(tr, p) ==
    IF p <= 1 THEN 0 ELSE rxnD[tr[p - 1][2]] + CountBefore(tr, p - 1)

Position(tr, key) == CHOOSE p \in 1..Len(tr) : tr[p] = key

InSurvey(key, sv) == \E p \in 1..Len(Pairs(sv)) : Pairs(sv)[p] = key

\* where the data of a pair start in the flat vector, and how many they are
Offset(key, sv) == CountBefore(Pairs(sv), Position(Pairs(sv), key))

Count(key) == rxnD[key[2]]

\* C4: the index arrays of the map, over the (source, receiver) pairs in
\* traversal order, are contiguous, do not overlap and cover exactly
\* 0 .. survey.nD - 1; the array of a pair starts at the sum of the datum
\* counts of the receivers before it and has its receiver's datum count.
C4_IndexRanges ==
    (result.op = "index_dict" /\ result.exc = "none") =>
        LET d == result.ret
            tr == Pairs(self.survey)
            idx(p) == d[tr[p][1]][tr[p][2]]
        IN  /\ DOMAIN d = Range(self.survey.source_list)
            /\ \A src \in DOMAIN d : DOMAIN d[src] = Range(receiver_list[src])
            /\ \A p \in 1..Len(tr) :
                /\ Len(idx(p)) = rxnD[tr[p][2]]
                /\ \A i \in 1..Len(idx(p)) : idx(p)[i] = CountBefore(tr, p) + i - 1
            /\ \A p, q \in 1..Len(tr) : p # q => Range(idx(p)) \cap Range(idx(q)) = {}
            /\ \A p \in 1..(Len(tr) - 1) :
                Len(idx(p)) > 0 /\ Len(idx(p + 1)) > 0
                    => idx(p + 1)[1] = idx(p)[Len(idx(p))] + 1
            /\ UNION {Range(idx(p)) : p \in 1..Len(tr)} = 0..(SurveyND(self.survey) - 1)

\* C4 witness: the map of a survey of two sources, the first with two
\* receivers that record data, the second sharing a receiver with it
C4_Witness ==
    /\ result.op = "index_dict"
    /\ result.exc = "none"
    /\ Len(self.survey.source_list) = 2
    /\ Len(receiver_list[1]) = 2
    /\ \A j \in 1..2 : rxnD[receiver_list[1][j]] > 0
    /\ Len(receiver_list[2]) >= 1
    /\ receiver_list[2][1] = receiver_list[1][2]
    /\ rxnD[receiver_list[1][1]] # rxnD[receiver_list[1][2]]

\* C5: every lookup of the index map returns the map of the instance's
\* current survey.
C5_MapOfCurrentSurvey ==
    (result.op = "index_dict" /\ result.exc = "none")
        => result.ret = BuildIndexDict(self.survey)

C7_Uncertainty ==
    [][result'.op = "uncertainty"
       => (/\ result'.exc = "none"
           /\ self' = self
           /\ Len(result'.ret) = SurveyND(self.survey)
           /\ \A i \in 1..Len(result'.ret) :
               result'.ret[i] =
                   Add(Mul(self.standard_deviation[i], Absolute(self.dobs[i])),
                       self.noise_floor[i]))]_vars

\* C7 witness: the uncertainty was read where a datum is negative and its
\* standard deviation and noise floor are not zero, and where another
\* datum is still missing
C7_Witness ==
    /\ result.op = "uncertainty"
    /\ \E i \in 1..Len(self.dobs) :
        /\ self.dobs[i] # nan
        /\ self.dobs[i] < 0
        /\ self.standard_deviation[i] # 0
        /\ self.noise_floor[i] # 0
    /\ \E i \in 1..Len(self.dobs) : self.dobs[i] = nan

\* C8: for a (source, receiver) pair of the survey, data[(src, rx)] returns
\* the entries of dobs at the pair's range, and data[(src, rx)] = v puts v
\* at exactly those entries and leaves the rest of dobs, standard_deviation
\* and noise_floor as they were; both warn and neither raises.
C8_DictionaryAccess ==
    [][/\ (/\ result'.op = "__getitem__"
           /\ InSurvey(result'.args[1], self.survey))
          => (/\ result'.exc = "none"
              /\ result'.warned
              /\ result'.ret =
                     [i \in 1..Count(result'.args[1]) |->
                         self.dobs[Offset(result'.args[1], self.survey) + i]]
              /\ self'.dobs = self.dobs
              /\ self'.standard_deviation = self.standard_deviation
              /\ self'.noise_floor = self.noise_floor)
       /\ (/\ result'.op = "__setitem__"
           /\ InSurvey(result'.args[1], self.survey)
           /\ result'.args[2].t = "array"
           /\ Len(result'.args[2].v) = Count(result'.args[1]))
          => (/\ result'.exc = "none"
              /\ result'.warned
              /\ self'.dobs =
                     [k \in 1..Len(self.dobs) |->
                         LET off == Offset(result'.args[1], self.survey)
                         IN  IF off < k /\ k <= off + Count(result'.args[1])
                             THEN result'.args[2].v[k - off]
                             ELSE self.dobs[k]]
              /\ self'.standard_deviation = self.standard_deviation
              /\ self'.noise_floor = self.noise_floor)]_vars

\* C8 witness: two entries in the middle of dobs were set through the key
\* of the second receiver of the first source, with a source after it
C8_Witness ==
    /\ result.op = "__setitem__"
    /\ result.exc = "none"
    /\ InSurvey(Arg(1), self.survey)
    /\ Arg(2).t = "array"
    /\ Count(Arg(1)) = 2
    /\ Len(Arg(2).v) = 2
    /\ Offset(Arg(1), self.survey) > 0
    /\ Offset(Arg(1), self.survey) + 2 < Len(self.dobs)

InPlaceWrites == {"dobs[index]=", "__setitem__"}

\* C9: no write to dobs or standard_deviation, whole or in place through
\* the index map, returns normally leaving the written field with a length
\* other than survey.nD.
C9_EveryWriteChecked ==
    (/\ result.op \in {"dobs=", "standard_deviation=", "std="} \cup InPlaceWrites
     /\ result.exc = "none")
    => Len(self[IF result.op \in InPlaceWrites THEN "dobs" ELSE FieldOf(result.op)])
           = SurveyND(self.survey)

\* C9 as amended: an assignment of a whole field that returns normally
\* leaves the field with survey.nD entries; a write in place through the
\* index map is not checked against survey.nD and leaves the length of
\* every field as it was.
C9_WholeAssignmentsChecked ==
    [][/\ (result'.op \in FieldAssignments /\ result'.exc = "none")
          => Len(self'[FieldOf(result'.op)]) = SurveyND(self'.survey)
       /\ result'.op \in InPlaceWrites
          => (/\ Len(self'.dobs) = Len(self.dobs)
              /\ Len(self'.standard_deviation) = Len(self.standard_deviation)
              /\ Len(self'.noise_floor) = Len(self.noise_floor))]_vars

\* C9 witness: a dictionary-style write returned normally on an instance
\* whose dobs does not have survey.nD entries
C9_Witness ==
    /\ result.op = "__setitem__"
    /\ result.exc = "none"
    /\ Len(self.dobs) # SurveyND(self.survey)
    /\ \E i \in 1..Len(self.dobs) : self.dobs[i] # nan

====
